---- MODULE Spec2Model ----
(***************************************************************************)
(* A model of dynamodb_pycrud: the DynamoCrud wrapper (table and item      *)
(* operations), its helpers (validate_keys, check_item_keys,               *)
(* convert_to_dynamodb_format) and the DynamoDB service the wrapper calls. *)
(*                                                                         *)
(* Python values are records tagged with their Python type ("py"), Python  *)
(* dicts with string keys are functions over a set of strings, and         *)
(* DynamoDB attribute values are one-field records ([S |-> "25"]).         *)
(***************************************************************************)
EXTENDS FiniteSets, Integers, Sequences, TLC

\* ------------------------------------------------------------------------
\* Bounds of the model
\* ------------------------------------------------------------------------

\* number of distinct partition key values the callers use ("25", "26", ...)
NumIds == 2

\* number of items one Scan response carries: the service ends a page at
\* 1 MB of data and returns LastEvaluatedKey for the rest
ScanPageLimit == 1

\* ------------------------------------------------------------------------
\* Python values
\* ------------------------------------------------------------------------

PyNone == [py |-> "NoneType", v |-> "None"]

PyStr(s) == [py |-> "str", v |-> s]

PyInt(n) == [py |-> "int", v |-> n]

PyBool(b) == [py |-> "bool", v |-> b]

\* a float with one fractional digit: whole + tenth/10
PyFloat(whole, tenth) == [py |-> "float", v |-> <<whole, tenth>>]

PyList(l) == [py |-> "list", v |-> l]

PyDict(d) == [py |-> "dict", v |-> d]

\* {} : the empty dict every wrapper method returns on failure
EmptyDict == [a \in {} |-> TRUE]

\* isinstance(value, cls): bool is a subclass of int
IsInstance(value, cls) ==
    \/ value.py = cls
    \/ cls = "int" /\ value.py = "bool"

\* truth value of an Optional[str] argument: None and "" are false
Truthy(value) ==
    /\ value.py # "NoneType"
    /\ ~(value.py = "str" /\ value.v = "")

Digits == <<"0", "1", "2", "3", "4", "5", "6", "7", "8", "9">>

RECURSIVE NatToStr(_)
NatToStr(n) ==
    IF n < 10 THEN Digits[n + 1]
    ELSE NatToStr(n \div 10) \o Digits[(n % 10) + 1]

\* str(value) of an int
IntToStr(n) == IF n < 0 THEN "-" \o NatToStr(0 - n) ELSE NatToStr(n)

\* str(value) of a float
FloatToStr(f) == IntToStr(f[1]) \o "." \o Digits[f[2] + 1]

\* ------------------------------------------------------------------------
\* dynamodb_pycrud_helpers.py
\* ------------------------------------------------------------------------

\* the value convert_to_dynamodb_format stores for one dict value; the
\* branches are tried in the order of the source (str, bool, int, float,
\* list, dict, else TypeError)
RECURSIVE convert_value(_)
convert_value(value) ==
    IF IsInstance(value, "str") THEN [S |-> value.v]
    ELSE IF IsInstance(value, "bool") THEN [BOOL |-> value.v]
    ELSE IF IsInstance(value, "int") THEN [N |-> IntToStr(value.v)]
    ELSE IF IsInstance(value, "float") THEN [N |-> FloatToStr(value.v)]
    ELSE IF IsInstance(value, "list")
        THEN [L |-> [i \in DOMAIN value.v |-> convert_value(value.v[i])]]
    ELSE IF IsInstance(value, "dict")
        THEN [M |-> [k \in DOMAIN value.v |-> convert_value(value.v[k])]]
    ELSE [TypeError |-> value.py]

\* does the conversion of this value raise TypeError
RECURSIVE raises_TypeError(_)
raises_TypeError(value) ==
    IF value.py \in {"str", "bool", "int", "float"} THEN FALSE
    ELSE IF value.py \in {"list", "dict"}
        THEN \E k \in DOMAIN value.v : raises_TypeError(value.v[k])
    ELSE TRUE

convert_raises(item) == \E k \in DOMAIN item : raises_TypeError(item[k])

convert_to_dynamodb_format(item) ==
    [key \in DOMAIN item |-> convert_value(item[key])]

\* a validate_keys that matches the key names without their KeyType
validate_keys_any_role(table_description, partition_key, sort_key) ==
    LET key_schema == table_description.KeySchema
        partition_key_exists ==
            \E i \in DOMAIN key_schema :
                key_schema[i].AttributeName = partition_key
        sort_key_exists ==
            \E i \in DOMAIN key_schema :
                PyStr(key_schema[i].AttributeName) = sort_key
    IN  IF Len(key_schema) > 1 /\ ~Truthy(sort_key) THEN FALSE
        ELSE IF ~partition_key_exists THEN FALSE
        ELSE IF Truthy(sort_key) /\ ~sort_key_exists THEN FALSE
        ELSE TRUE

validate_keys(table_description, partition_key, sort_key) ==
    LET key_schema == table_description.KeySchema
        partition_key_exists ==
            \E i \in DOMAIN key_schema :
                /\ key_schema[i].AttributeName = partition_key
                /\ key_schema[i].KeyType = "HASH"
        sort_key_exists ==
            \E i \in DOMAIN key_schema :
                /\ PyStr(key_schema[i].AttributeName) = sort_key
                /\ key_schema[i].KeyType = "RANGE"
    IN  IF Len(key_schema) > 1 /\ ~Truthy(sort_key) THEN FALSE
        ELSE IF ~partition_key_exists THEN FALSE
        ELSE IF Truthy(sort_key) /\ ~sort_key_exists THEN FALSE
        ELSE TRUE

check_item_keys(item, partition_key, sort_key) ==
    IF partition_key \notin DOMAIN item THEN FALSE
    ELSE IF Truthy(sort_key) /\ sort_key.v \notin DOMAIN item THEN FALSE
    ELSE TRUE

\* ------------------------------------------------------------------------
\* The DynamoDB service behind self.dynamodb (boto3 client)
\* ------------------------------------------------------------------------

TableNames == {"T", "U"}

\* WaiterConfig MaxAttempts of the table_exists and table_not_exists waiters
CreateMaxAttempts == 20

DeleteMaxAttempts == 20


\* a table name that names no table
NoTable ==
    [TableStatus |-> "NONE", KeySchema |-> <<>>, AttributeDefinitions |-> <<>>,
     Items |-> {}]

\* the names of the key attributes of a table
KeyNames(table) ==
    {table.KeySchema[i].AttributeName : i \in DOMAIN table.KeySchema}

\* the declared type of a key attribute
KeyTypeOf(table, name) ==
    LET i == CHOOSE j \in DOMAIN table.AttributeDefinitions :
                 table.AttributeDefinitions[j].AttributeName = name
    IN  table.AttributeDefinitions[i].AttributeType

\* the primary key of a stored item: its key attributes
KeyOf(table, Item) == [a \in KeyNames(table) |-> Item[a]]

\* the service accepts an item (or key) only with every key attribute
\* present and of the declared type
KeysWellTyped(table, Item) ==
    \A a \in KeyNames(table) :
        /\ a \in DOMAIN Item
        /\ DOMAIN Item[a] = {KeyTypeOf(table, a)}

\* the stored items with the primary key of Item (at most one)
SameKey(table, Item) ==
    {old \in table.Items : KeyOf(table, old) = KeyOf(table, Item)}

TableDescription(tb, TableName) ==
    [TableName |-> TableName,
     KeySchema |-> tb[TableName].KeySchema,
     AttributeDefinitions |-> tb[TableName].AttributeDefinitions,
     TableStatus |-> tb[TableName].TableStatus]

dynamodb_describe_table(tb, TableName) ==
    IF tb[TableName].TableStatus = "NONE"
    THEN [Error |-> "ResourceNotFoundException", tables |-> tb]
    ELSE [Error |-> "", Table |-> TableDescription(tb, TableName), tables |-> tb]

dynamodb_create_table(tb, TableName, KeySchema, AttributeDefinitions) ==
    IF tb[TableName].TableStatus # "NONE"
    THEN [Error |-> "ResourceInUseException", tables |-> tb]
    ELSE LET new == [tb EXCEPT ![TableName] =
                        [TableStatus |-> "CREATING", KeySchema |-> KeySchema,
                         AttributeDefinitions |-> AttributeDefinitions,
                         Items |-> {}]]
         IN  [Error |-> "", TableDescription |-> TableDescription(new, TableName),
              tables |-> new]

dynamodb_delete_table(tb, TableName) ==
    IF tb[TableName].TableStatus = "NONE"
    THEN [Error |-> "ResourceNotFoundException", tables |-> tb]
    ELSE IF tb[TableName].TableStatus = "CREATING"
    THEN [Error |-> "ResourceInUseException", tables |-> tb]
    ELSE LET new == [tb EXCEPT ![TableName].TableStatus = "DELETING",
                               ![TableName].Items = {}]
         IN  [Error |-> "", TableDescription |-> TableDescription(new, TableName),
              tables |-> new]

\* ConditionExpression: the attributes named by attribute_not_exists(..),
\* joined by AND, evaluated on the stored item with the key of the new item
ConditionHolds(table, Item, ConditionExpression) ==
    \A old \in SameKey(table, Item) :
        \A i \in DOMAIN ConditionExpression :
            ConditionExpression[i] \notin DOMAIN old

\* a store that merges the new attributes into the stored item
StoreItem_merge(table, Item) ==
    (table.Items \ SameKey(table, Item))
    \cup (IF SameKey(table, Item) = {} THEN {Item}
          ELSE {[a \in DOMAIN Item \cup DOMAIN old |->
                    IF a \in DOMAIN Item THEN Item[a] ELSE old[a]] :
                old \in SameKey(table, Item)})

\* a store that adds the new item next to the stored one
StoreItem_append(table, Item) == table.Items \cup {Item}

\* the items of a table after the service stored Item
StoreItem(table, Item) == (table.Items \ SameKey(table, Item)) \cup {Item}

dynamodb_put_item(tb, TableName, Item, ConditionExpression) ==
    LET table == tb[TableName] IN
    IF table.TableStatus # "ACTIVE"
    THEN [Error |-> "ResourceNotFoundException", tables |-> tb]
    ELSE IF ~KeysWellTyped(table, Item)
    THEN [Error |-> "ValidationException", tables |-> tb]
    ELSE IF ~ConditionHolds(table, Item, ConditionExpression)
    THEN [Error |-> "ConditionalCheckFailedException", tables |-> tb]
    ELSE [Error |-> "", ResponseMetadata |-> "200",
          tables |-> [tb EXCEPT ![TableName].Items = StoreItem(table, Item)]]

\* a Key names exactly the key attributes, each of the declared type
KeyValid(table, Key) ==
    /\ DOMAIN Key = KeyNames(table)
    /\ KeysWellTyped(table, Key)

dynamodb_get_item(tb, TableName, Key) ==
    LET table == tb[TableName] IN
    IF table.TableStatus # "ACTIVE"
    THEN [Error |-> "ResourceNotFoundException", tables |-> tb]
    ELSE IF ~KeyValid(table, Key)
    THEN [Error |-> "ValidationException", tables |-> tb]
    ELSE IF SameKey(table, Key) = {}
    THEN [Error |-> "", tables |-> tb]
    ELSE [Error |-> "", Item |-> CHOOSE it \in SameKey(table, Key) : TRUE,
          tables |-> tb]

\* a delete_item call without ReturnValues: no Attributes in the response
dynamodb_delete_item_no_old(tb, TableName, Key) ==
    LET table == tb[TableName] IN
    IF table.TableStatus # "ACTIVE"
    THEN [Error |-> "ResourceNotFoundException", tables |-> tb]
    ELSE IF ~KeyValid(table, Key)
    THEN [Error |-> "ValidationException", tables |-> tb]
    ELSE [Error |-> "",
          tables |-> [tb EXCEPT ![TableName].Items =
                                    table.Items \ SameKey(table, Key)]]

\* ReturnValues = "ALL_OLD"
dynamodb_delete_item(tb, TableName, Key) ==
    LET table == tb[TableName] IN
    IF table.TableStatus # "ACTIVE"
    THEN [Error |-> "ResourceNotFoundException", tables |-> tb]
    ELSE IF ~KeyValid(table, Key)
    THEN [Error |-> "ValidationException", tables |-> tb]
    ELSE IF SameKey(table, Key) = {}
    THEN [Error |-> "", tables |-> tb]
    ELSE [Error |-> "",
          Attributes |-> CHOOSE it \in SameKey(table, Key) : TRUE,
          tables |-> [tb EXCEPT ![TableName].Items =
                                    table.Items \ SameKey(table, Key)]]

\* the items of a set in the order the service scans them
RECURSIVE ScanOrder(_)
ScanOrder(Items) ==
    IF Items = {} THEN <<>>
    ELSE LET it == CHOOSE x \in Items : TRUE
         IN  <<it>> \o ScanOrder(Items \ {it})

\* one Scan call without ExclusiveStartKey: the first page only
dynamodb_scan(tb, TableName) ==
    LET table == tb[TableName]
        all == ScanOrder(table.Items)
    IN  IF table.TableStatus # "ACTIVE"
        THEN [Error |-> "ResourceNotFoundException", tables |-> tb]
        ELSE IF Len(all) > ScanPageLimit
        THEN [Error |-> "", Items |-> SubSeq(all, 1, ScanPageLimit),
              LastEvaluatedKey |-> KeyOf(table, all[ScanPageLimit]),
              tables |-> tb]
        ELSE [Error |-> "", Items |-> all, tables |-> tb]

\* ------------------------------------------------------------------------
\* dynamodb_pycrud.py: class DynamoCrud
\*
\* A method is an operator from the tables (and its arguments) to an outcome
\*   ret     the value returned to the caller
\*   raised  the exception that leaves the method, "" when it returns
\*   log     the last line the method printed
\*   Error   the error code of the ClientError the method caught, or ""
\*   tables  the tables after the call
\* ------------------------------------------------------------------------

Outcome(ret, raised, log, Error, tb) ==
    [ret |-> ret, raised |-> raised, log |-> log, Error |-> Error, tables |-> tb]

describe_table(tb, table_name) ==
    LET response == dynamodb_describe_table(tb, table_name) IN
    IF response.Error = "ResourceNotFoundException"
    THEN Outcome(EmptyDict, "", "[-] Table not found.", response.Error, tb)
    ELSE IF response.Error # ""
    THEN Outcome(EmptyDict, "", "[-] Error describing table", response.Error, tb)
    ELSE Outcome(response.Table, "", "[+] Primary Key:", "", tb)

\* a put_item that never sets a ConditionExpression
condition_expression_never(partition_key, sort_key, prevent_overwrite) == <<>>

\* a put_item that guards the sort key only
condition_expression_sort_only(partition_key, sort_key, prevent_overwrite) ==
    IF prevent_overwrite /\ Truthy(sort_key) THEN <<sort_key.v>> ELSE <<>>

\* the ConditionExpression put_item builds, as the sequence of the names
\* inside attribute_not_exists(..); <<>> is condition_expression = None
condition_expression(partition_key, sort_key, prevent_overwrite) ==
    IF prevent_overwrite
    THEN IF Truthy(sort_key) THEN <<partition_key, sort_key.v>>
         ELSE <<partition_key>>
    ELSE <<>>

\* a put_item that checks the item before the key names
put_item_checks_item_first(table_description, item, partition_key, sort_key) ==
    IF ~check_item_keys(item, partition_key, sort_key)
    THEN "[-] Item insertion aborted due to missing key(s) in item."
    ELSE IF ~validate_keys(table_description, partition_key, sort_key)
    THEN "[-] Item insertion aborted due to invalid schema."
    ELSE ""

\* the two checks of put_item after describe_table: the line printed by the
\* check that aborts the insertion, "" when both pass
put_item_checks(table_description, item, partition_key, sort_key) ==
    IF ~validate_keys(table_description, partition_key, sort_key)
    THEN "[-] Item insertion aborted due to invalid schema."
    ELSE IF ~check_item_keys(item, partition_key, sort_key)
    THEN "[-] Item insertion aborted due to missing key(s) in item."
    ELSE ""

\* put_item after the checks: conversion and the (conditional) write
put_item_write(tb, table_name, item, partition_key, sort_key, prevent_overwrite) ==
    IF convert_raises(item)
    THEN Outcome(EmptyDict, "TypeError", "[] creating dynamodb item...", "", tb)
    ELSE LET dynamodb_item == convert_to_dynamodb_format(item)
             response ==
                 dynamodb_put_item(tb, table_name, dynamodb_item,
                     condition_expression(partition_key, sort_key,
                                          prevent_overwrite))
         IN  IF response.Error # ""
             THEN Outcome(EmptyDict, "", "[-] Error inserting item",
                          response.Error, tb)
             ELSE Outcome([ResponseMetadata |-> response.ResponseMetadata], "",
                          "[+] Item inserted successfully.", "", response.tables)

put_item(tb, table_name, item, partition_key, sort_key, prevent_overwrite) ==
    LET described == describe_table(tb, table_name)
        table_description == described.ret
    IN  IF table_description = EmptyDict
        THEN Outcome(EmptyDict, "", described.log, described.Error, tb)
        ELSE IF put_item_checks(table_description, item, partition_key,
                                sort_key) # ""
        THEN Outcome(EmptyDict, "",
                     put_item_checks(table_description, item, partition_key,
                                     sort_key), "", tb)
        ELSE put_item_write(tb, table_name, item, partition_key, sort_key,
                            prevent_overwrite)

\* next(name of the first key of that KeyType, None)
SchemaKey(table_description, KeyType) ==
    LET key_schema == table_description.KeySchema
        hits == {i \in DOMAIN key_schema : key_schema[i].KeyType = KeyType}
    IN  IF hits = {} THEN PyNone
        ELSE PyStr(key_schema[CHOOSE i \in hits : \A j \in hits : i <= j]
                       .AttributeName)

get_item(tb, table_name, item_key) ==
    LET table_description == describe_table(tb, table_name).ret IN
    IF table_description = EmptyDict
    THEN Outcome(EmptyDict, "", "[-] Table not found.",
                 describe_table(tb, table_name).Error, tb)
    ELSE LET partition_key == SchemaKey(table_description, "HASH")
             sort_key == SchemaKey(table_description, "RANGE")
         IN  IF \/ partition_key.v \notin DOMAIN item_key
                \/ Truthy(sort_key) /\ sort_key.v \notin DOMAIN item_key
             THEN Outcome(EmptyDict, "",
                     "[-] Item retrieval aborted due to missing key(s) in item_key.",
                     "", tb)
             ELSE IF convert_raises(item_key)
             THEN Outcome(EmptyDict, "", "[-] An unexpected error occurred", "", tb)
             ELSE LET response ==
                          dynamodb_get_item(tb, table_name,
                              convert_to_dynamodb_format(item_key))
                  IN  IF response.Error # ""
                      THEN Outcome(EmptyDict, "", "[-] Error retrieving item",
                                   response.Error, tb)
                      ELSE IF "Item" \in DOMAIN response
                      THEN Outcome(response.Item, "",
                                   "[+] Item retrieved successfully.", "", tb)
                      ELSE Outcome(EmptyDict, "",
                              "[-] Item with the specified key(s) not found.",
                              "", tb)

\* [] : the empty list get_all_items returns on failure
EmptyList == <<>>

get_all_items(tb, table_name) ==
    LET table_description == describe_table(tb, table_name).ret IN
    IF table_description = EmptyDict
    THEN Outcome(EmptyList, "", "[-] Table not found.",
                 describe_table(tb, table_name).Error, tb)
    ELSE LET scan_response == dynamodb_scan(tb, table_name) IN
         IF scan_response.Error = "ResourceNotFoundException"
         THEN Outcome(EmptyList, "", "[-] Table does not exist.",
                      scan_response.Error, tb)
         ELSE IF scan_response.Error # ""
         THEN Outcome(EmptyList, "", "[-] An error occurred",
                      scan_response.Error, tb)
         ELSE IF scan_response.Items = <<>>
         THEN Outcome(EmptyList, "", "[-] No items found in table.", "", tb)
         ELSE Outcome(scan_response.Items, "", "[+] Items retrieved.", "", tb)

delete_item(tb, table_name, item_key) ==
    LET table_description == describe_table(tb, table_name).ret IN
    IF table_description = EmptyDict
    THEN Outcome(EmptyDict, "", "[-] Table not found.",
                 describe_table(tb, table_name).Error, tb)
    ELSE LET key_schema == table_description.KeySchema
             key_names == {key_schema[i].AttributeName : i \in DOMAIN key_schema}
         IN  IF \E required_key \in key_names : required_key \notin DOMAIN item_key
             THEN Outcome(EmptyDict, "", "[-] Missing required key", "", tb)
             ELSE IF convert_raises(item_key)
             THEN Outcome(EmptyDict, "", "[-] An unexpected error occurred", "", tb)
             ELSE LET delete_response ==
                          dynamodb_delete_item(tb, table_name,
                              convert_to_dynamodb_format(item_key))
                  IN  IF delete_response.Error = "ResourceNotFoundException"
                      THEN Outcome(EmptyDict, "", "[-] Table does not exist.",
                                   delete_response.Error, tb)
                      ELSE IF delete_response.Error # ""
                      THEN Outcome(EmptyDict, "", "[-] Error occurred",
                                   delete_response.Error, tb)
                      ELSE IF "Attributes" \notin DOMAIN delete_response
                      THEN Outcome(EmptyDict, "",
                                   "[-] No item found with primary key to delete.",
                                   "", tb)
                      ELSE Outcome(delete_response.Attributes, "",
                                   "[+] Item deleted.", "",
                                   delete_response.tables)

\* KeySchema and AttributeDefinitions create_table builds from its arguments
create_KeySchema(partition_key, sort_key, sort_key_type) ==
    IF Truthy(sort_key) /\ Truthy(sort_key_type)
    THEN <<[AttributeName |-> partition_key, KeyType |-> "HASH"],
           [AttributeName |-> sort_key.v, KeyType |-> "RANGE"]>>
    ELSE <<[AttributeName |-> partition_key, KeyType |-> "HASH"]>>

create_AttributeDefinitions(partition_key, partition_key_type, sort_key, sort_key_type) ==
    IF Truthy(sort_key) /\ Truthy(sort_key_type)
    THEN <<[AttributeName |-> partition_key,
            AttributeType |-> partition_key_type],
           [AttributeName |-> sort_key.v, AttributeType |-> sort_key_type.v]>>
    ELSE <<[AttributeName |-> partition_key,
            AttributeType |-> partition_key_type]>>

\* a create_table that answers for an existing table with the schema asked for
create_table_echo(tb, table_name, partition_key, partition_key_type, sort_key, sort_key_type) ==
    LET response == dynamodb_describe_table(tb, table_name) IN
    IF response.Error = ""
    THEN [waiting |-> FALSE] @@
         Outcome(<<"[-] Table already exists.",
                   [response.Table EXCEPT !.KeySchema =
                       create_KeySchema(partition_key, sort_key, sort_key_type)]>>,
                 "", "[-] printing table description:", "", tb)
    ELSE LET table ==
                 dynamodb_create_table(tb, table_name,
                     create_KeySchema(partition_key, sort_key, sort_key_type),
                     create_AttributeDefinitions(partition_key,
                         partition_key_type, sort_key, sort_key_type))
         IN  [waiting |-> TRUE] @@
             Outcome(<<"", EmptyDict>>, "",
                     "[+] printing table creation request:", "", table.tables)

\* create_table up to the waiter: the outcome has waiting = TRUE when the
\* method goes on to wait for the table, else it has returned
create_table(tb, table_name, partition_key, partition_key_type, sort_key, sort_key_type) ==
    LET response == dynamodb_describe_table(tb, table_name) IN
    IF response.Error = ""
    THEN [waiting |-> FALSE] @@
         Outcome(<<"[-] Table already exists.", response.Table>>, "",
                 "[-] printing table description:", "", tb)
    ELSE IF response.Error # "ResourceNotFoundException"
    THEN [waiting |-> FALSE] @@
         Outcome(<<"[-] Unexpected error occurred", EmptyDict>>, "",
                 "[-] Unexpected error occurred", response.Error, tb)
    ELSE LET table ==
                 dynamodb_create_table(tb, table_name,
                     create_KeySchema(partition_key, sort_key, sort_key_type),
                     create_AttributeDefinitions(partition_key,
                         partition_key_type, sort_key, sort_key_type))
         IN  IF table.Error # ""
             THEN [waiting |-> FALSE] @@
                  Outcome(<<"[-] Unexpected error occurred", EmptyDict>>, "",
                          "[-] Unexpected error occurred", table.Error, tb)
             ELSE [waiting |-> TRUE] @@
                  Outcome(<<"", EmptyDict>>, "",
                          "[+] printing table creation request:", "",
                          table.tables)

\* a waiter without the attempt cap
create_table_wait_no_cap(tb, table_name, num_attempts) ==
    LET response == dynamodb_describe_table(tb, table_name)
        attempts == num_attempts + 1
    IN  IF response.Error = "" /\ response.Table.TableStatus = "ACTIVE"
        THEN [waiting |-> FALSE, num_attempts |-> attempts] @@
             Outcome(<<"[+] Table has been created successfully.",
                       response.Table>>, "",
                     "[+] printing table description:", "", tb)
        ELSE [waiting |-> TRUE, num_attempts |-> attempts] @@
             Outcome(<<"", EmptyDict>>, "",
                     "[+] printing table creation request:", "", tb)

\* one poll of the table_exists waiter (num_attempts polls were made before)
\* and, when the waiter ends, the rest of create_table
create_table_wait(tb, table_name, num_attempts) ==
    LET response == dynamodb_describe_table(tb, table_name)
        attempts == num_attempts + 1
    IN  IF response.Error = "" /\ response.Table.TableStatus = "ACTIVE"
        THEN LET described == dynamodb_describe_table(tb, table_name) IN
             IF described.Error # ""
             THEN [waiting |-> FALSE, num_attempts |-> attempts] @@
                  Outcome(<<"[-] Unexpected error occurred", EmptyDict>>, "",
                          "[-] Unexpected error occurred", described.Error, tb)
             ELSE [waiting |-> FALSE, num_attempts |-> attempts] @@
                  Outcome(<<"[+] Table has been created successfully.",
                            described.Table>>, "",
                          "[+] printing table description:", "", tb)
        ELSE IF response.Error \notin {"", "ResourceNotFoundException"}
        THEN [waiting |-> FALSE, num_attempts |-> attempts] @@
             Outcome(<<"", EmptyDict>>, "WaiterError",
                     "[+] printing table creation request:", "", tb)
        ELSE IF attempts >= CreateMaxAttempts
        THEN [waiting |-> FALSE, num_attempts |-> attempts] @@
             Outcome(<<"", EmptyDict>>, "WaiterError",
                     "[+] printing table creation request:", "", tb)
        ELSE [waiting |-> TRUE, num_attempts |-> attempts] @@
             Outcome(<<"", EmptyDict>>, "",
                     "[+] printing table creation request:", "", tb)

\* a delete_table that lets the ResourceNotFoundException through
delete_table_raises(tb, table_name) ==
    LET response == dynamodb_delete_table(tb, table_name) IN
    IF response.Error = "ResourceNotFoundException"
    THEN [waiting |-> FALSE] @@
         Outcome(EmptyDict, "ResourceNotFoundException", "", response.Error, tb)
    ELSE IF response.Error # ""
    THEN [waiting |-> FALSE] @@
         Outcome(EmptyDict, "", "[-] Error deleting table", response.Error, tb)
    ELSE [waiting |-> TRUE] @@
         Outcome([TableDescription |-> response.TableDescription], "",
                 "[] Table is being deleted.", "", response.tables)

\* delete_table up to the waiter
delete_table(tb, table_name) ==
    LET response == dynamodb_delete_table(tb, table_name) IN
    IF response.Error = "ResourceNotFoundException"
    THEN [waiting |-> FALSE] @@
         Outcome(EmptyDict, "", "[-] Table does not exist.", response.Error, tb)
    ELSE IF response.Error # ""
    THEN [waiting |-> FALSE] @@
         Outcome(EmptyDict, "", "[-] Error deleting table", response.Error, tb)
    ELSE [waiting |-> TRUE] @@
         Outcome([TableDescription |-> response.TableDescription], "",
                 "[] Table is being deleted.", "", response.tables)

\* a delete_table that returns the response without waiting for the removal
delete_table_wait_no_wait(tb, table_name, num_attempts, response) ==
    [waiting |-> FALSE, num_attempts |-> num_attempts + 1] @@
    Outcome(response, "", "[+] Table has been successfully deleted.", "", tb)

\* one poll of the table_not_exists waiter and, when the waiter ends, the
\* rest of delete_table; response is what dynamodb.delete_table returned
delete_table_wait(tb, table_name, num_attempts, response) ==
    LET described == dynamodb_describe_table(tb, table_name)
        attempts == num_attempts + 1
    IN  IF described.Error = "ResourceNotFoundException"
        THEN [waiting |-> FALSE, num_attempts |-> attempts] @@
             Outcome(response, "", "[+] Table has been successfully deleted.",
                     "", tb)
        ELSE IF described.Error # ""
        THEN [waiting |-> FALSE, num_attempts |-> attempts] @@
             Outcome(EmptyDict, "", "[-] An unexpected error occurred",
                     "", tb)
        ELSE IF attempts >= DeleteMaxAttempts
        THEN [waiting |-> FALSE, num_attempts |-> attempts] @@
             Outcome(EmptyDict, "", "[-] An unexpected error occurred",
                     "", tb)
        ELSE [waiting |-> TRUE, num_attempts |-> attempts] @@
             Outcome(response, "", "[] Table is being deleted.", "", tb)

list_tables(tb) ==
    Outcome({t \in TableNames : tb[t].TableStatus # "NONE"}, "",
            "[+] table names collected.", "", tb)

\* ------------------------------------------------------------------------
\* The arguments the callers pass
\* ------------------------------------------------------------------------

\* partition key values "25", "26", ...
Ids == {IntToStr(24 + k) : k \in 1..NumIds}

\* {"id": id, "book_name": "anotherBook"}
BookItem(id) ==
    [a \in {"id", "book_name"} |->
        IF a = "id" THEN id ELSE PyStr("anotherBook")]

\* the example item of put_item, with a value of every supported type
FullItem ==
    [a \in {"id", "book_name", "genre", "year", "isActive", "price", "tags",
            "meta"} |->
        IF a = "id" THEN PyStr("25")
        ELSE IF a = "book_name" THEN PyStr("anotherBook")
        ELSE IF a = "genre" THEN PyStr("Short Story")
        ELSE IF a = "year" THEN PyInt(2010)
        ELSE IF a = "isActive" THEN PyBool(TRUE)
        ELSE IF a = "price" THEN PyFloat(9, 5)
        ELSE IF a = "tags" THEN PyList(<<PyStr("a"), PyInt(1), PyBool(FALSE)>>)
        ELSE PyDict([k \in {"pages"} |-> PyInt(320)])]

\* an item with a value that has no DynamoDB type
NoneItem ==
    [a \in {"id", "book_name", "year"} |->
        IF a = "id" THEN PyStr("25")
        ELSE IF a = "book_name" THEN PyStr("anotherBook") ELSE PyNone]

ItemArgs ==
    {BookItem(PyStr(id)) : id \in Ids}
    \cup {FullItem, NoneItem,
          BookItem(PyInt(25)),
          [a \in {"id"} |-> PyStr("25")],
          [a \in {"book_name", "year"} |->
              IF a = "year" THEN PyInt(2010) ELSE PyStr("anotherBook")]}

ItemKeyArgs ==
    {BookItem(PyStr(id)) : id \in Ids}
    \cup {[a \in {"id"} |-> PyStr(id)] : id \in Ids}
    \cup {BookItem(PyInt(25)),
          [a \in {"id"} |-> PyInt(25)],
          [a \in {"book_name"} |-> PyStr("anotherBook")],
          NoneItem}

PartitionKeyArgs == {"id", "book_name"}

SortKeyArgs == {PyNone, PyStr("book_name")}

KeyTypeArgs == {"S", "N"}

SortKeyTypeArgs == {PyNone, PyStr("S")}

\* ------------------------------------------------------------------------
\* State
\* ------------------------------------------------------------------------

VARIABLES
    tables,   \* the service: table name -> status, key schema, items
    call,     \* the create_table / delete_table call that is waiting, if any
    last,     \* the call that returned in the last step, with the tables
              \* before it (pre); NoCall after any other step
    callers   \* the concurrent put_item calls: where each one is in put_item

vars == <<tables, call, last, callers>>

\* the callers of the concurrent put_item calls
Callers == {"c1", "c2"}

\* no concurrent calls
NoCallers == [c \in Callers |-> [pc |-> "none"]]

Idle == [pc |-> "idle"]

\* no call has returned since the caller went on
NoCall == [op |-> "none"]

\* the caller is free to make its next call
Ready == call = Idle /\ last = NoCall

\* the record of a call that returned
Returned(op, args, pre, outcome) ==
    [op |-> op, args |-> args, pre |-> pre, ret |-> outcome.ret,
     raised |-> outcome.raised, log |-> outcome.log, Error |-> outcome.Error]

Init ==
    /\ tables = [t \in TableNames |-> NoTable]
    /\ call = Idle
    /\ last = NoCall
    /\ callers = NoCallers

\* ------------------------------------------------------------------------
\* The service on its own
\* ------------------------------------------------------------------------

TableBecomesActive ==
    \E t \in TableNames :
        /\ tables[t].TableStatus = "CREATING"
        /\ tables' = [tables EXCEPT ![t].TableStatus = "ACTIVE"]
        /\ last' = NoCall
        /\ UNCHANGED <<call, callers>>

TableRemoved ==
    \E t \in TableNames :
        /\ tables[t].TableStatus = "DELETING"
        /\ tables' = [tables EXCEPT ![t] = NoTable]
        /\ last' = NoCall
        /\ UNCHANGED <<call, callers>>

\* ------------------------------------------------------------------------
\* The calls of one caller
\* ------------------------------------------------------------------------

ListTables ==
    /\ Ready
    /\ last' = Returned("list_tables", <<>>, tables, list_tables(tables))
    /\ UNCHANGED <<tables, call, callers>>

DescribeTable ==
    \E t \in TableNames :
        /\ Ready
        /\ last' = Returned("describe_table", [table_name |-> t], tables,
                            describe_table(tables, t))
        /\ UNCHANGED <<tables, call, callers>>

CreateTable ==
    \E t \in TableNames, pt \in KeyTypeArgs, sk \in SortKeyArgs,
       skt \in SortKeyTypeArgs :
        LET args == [table_name |-> t, partition_key |-> "id",
                     partition_key_type |-> pt, sort_key |-> sk,
                     sort_key_type |-> skt]
            o == create_table(tables, t, "id", pt, sk, skt)
        IN  /\ Ready
            /\ UNCHANGED callers
            /\ tables' = o.tables
            /\ IF o.waiting
               THEN /\ call' = [pc |-> "create_wait", args |-> args,
                                pre |-> tables, num_attempts |-> 0]
                    /\ UNCHANGED last
               ELSE /\ call' = Idle
                    /\ last' = Returned("create_table", args, tables, o)

CreateTableWait ==
    /\ call.pc = "create_wait"
    /\ LET o == create_table_wait(tables, call.args.table_name,
                                  call.num_attempts)
       IN  /\ UNCHANGED callers
           /\ tables' = o.tables
           /\ IF o.waiting
              THEN /\ call' = [call EXCEPT !.num_attempts = o.num_attempts]
                   /\ UNCHANGED last
              ELSE /\ call' = Idle
                   /\ last' = [num_attempts |-> o.num_attempts] @@
                              Returned("create_table", call.args, call.pre, o)

DeleteTable ==
    \E t \in TableNames :
        LET args == [table_name |-> t]
            o == delete_table(tables, t)
        IN  /\ Ready
            /\ UNCHANGED callers
            /\ tables' = o.tables
            /\ IF o.waiting
               THEN /\ call' = [pc |-> "delete_wait", args |-> args,
                                pre |-> tables, num_attempts |-> 0,
                                response |-> o.ret]
                    /\ UNCHANGED last
               ELSE /\ call' = Idle
                    /\ last' = Returned("delete_table", args, tables, o)

DeleteTableWait ==
    /\ call.pc = "delete_wait"
    /\ LET o == delete_table_wait(tables, call.args.table_name,
                                  call.num_attempts, call.response)
       IN  /\ UNCHANGED callers
           /\ tables' = o.tables
           /\ IF o.waiting
              THEN /\ call' = [call EXCEPT !.num_attempts = o.num_attempts]
                   /\ UNCHANGED last
              ELSE /\ call' = Idle
                   /\ last' = [num_attempts |-> o.num_attempts] @@
                              Returned("delete_table", call.args, call.pre, o)

PutItem ==
    \E t \in TableNames, item \in ItemArgs, pk \in PartitionKeyArgs,
       sk \in SortKeyArgs, po \in BOOLEAN :
        LET o == put_item(tables, t, item, pk, sk, po) IN
        /\ Ready
        /\ tables' = o.tables
        /\ last' = Returned("put_item",
                       [table_name |-> t, item |-> item, partition_key |-> pk,
                        sort_key |-> sk, prevent_overwrite |-> po], tables, o)
        /\ UNCHANGED <<call, callers>>

GetItem ==
    \E t \in TableNames, item_key \in ItemKeyArgs :
        /\ Ready
        /\ last' = Returned("get_item",
                       [table_name |-> t, item_key |-> item_key], tables,
                       get_item(tables, t, item_key))
        /\ UNCHANGED <<tables, call, callers>>

GetAllItems ==
    \E t \in TableNames :
        /\ Ready
        /\ last' = Returned("get_all_items", [table_name |-> t], tables,
                            get_all_items(tables, t))
        /\ UNCHANGED <<tables, call, callers>>

DeleteItem ==
    \E t \in TableNames, item_key \in ItemKeyArgs :
        LET o == delete_item(tables, t, item_key) IN
        /\ Ready
        /\ tables' = o.tables
        /\ last' = Returned("delete_item",
                       [table_name |-> t, item_key |-> item_key], tables, o)
        /\ UNCHANGED <<call, callers>>

\* the caller takes the result of its call and goes on
CallerContinues ==
    /\ last # NoCall
    /\ last' = NoCall
    /\ UNCHANGED <<tables, call, callers>>

Next ==
    \/ CallerContinues
    \/ TableBecomesActive
    \/ TableRemoved
    \/ ListTables
    \/ DescribeTable
    \/ CreateTable
    \/ CreateTableWait
    \/ DeleteTable
    \/ DeleteTableWait
    \/ PutItem
    \/ GetItem
    \/ GetAllItems
    \/ DeleteItem

Spec == Init /\ [][Next]_vars

\* ------------------------------------------------------------------------
\* Two callers inside put_item at the same time
\*
\* Each caller runs put_item in its three steps: describe_table, the two
\* checks, then the conversion and the write. The write is one request to
\* the service, which applies a conditional put atomically.
\* ------------------------------------------------------------------------

\* a table as create_table makes it, ACTIVE, with the given items
ActiveTable(sort_key, sort_key_type, Items) ==
    [TableStatus |-> "ACTIVE",
     KeySchema |-> create_KeySchema("id", sort_key, sort_key_type),
     AttributeDefinitions |->
         create_AttributeDefinitions("id", "S", sort_key, sort_key_type),
     Items |-> Items]

ConcurrentInit ==
    /\ \E sk \in SortKeyArgs, Items \in {{}, {convert_to_dynamodb_format(FullItem)}} :
           tables = [t \in TableNames |->
                        IF t = "T" THEN ActiveTable(sk, PyStr("S"), Items)
                        ELSE NoTable]
    /\ call = Idle
    /\ last = [op |-> "concurrent", pre |-> tables]
    /\ callers \in [Callers ->
           {[pc |-> "describe",
             args |-> [table_name |-> "T", item |-> item, partition_key |-> pk,
                       sort_key |-> sk, prevent_overwrite |-> po]] :
                item \in ItemArgs, pk \in PartitionKeyArgs, sk \in SortKeyArgs,
                po \in BOOLEAN}]

\* the caller's put_item returned
CallerDone(c, outcome) ==
    callers' = [callers EXCEPT ![c] =
                   [pc |-> "done", args |-> callers[c].args,
                    ret |-> outcome.ret, raised |-> outcome.raised,
                    log |-> outcome.log, Error |-> outcome.Error]]

PutDescribe ==
    \E c \in Callers :
        /\ callers[c].pc = "describe"
        /\ LET described == describe_table(tables, callers[c].args.table_name) IN
           IF described.ret = EmptyDict
           THEN CallerDone(c, described)
           ELSE callers' = [callers EXCEPT ![c] =
                               [pc |-> "validate", args |-> callers[c].args,
                                table_description |-> described.ret]]
        /\ UNCHANGED <<tables, call, last>>

PutValidate ==
    \E c \in Callers :
        /\ callers[c].pc = "validate"
        /\ LET a == callers[c].args
               aborted == put_item_checks(callers[c].table_description, a.item,
                                          a.partition_key, a.sort_key)
           IN  IF aborted # ""
               THEN CallerDone(c, Outcome(EmptyDict, "", aborted, "", tables))
               ELSE callers' = [callers EXCEPT ![c] =
                                   [pc |-> "write", args |-> a]]
        /\ UNCHANGED <<tables, call, last>>

PutWrite ==
    \E c \in Callers :
        /\ callers[c].pc = "write"
        /\ LET a == callers[c].args
               o == put_item_write(tables, a.table_name, a.item,
                                   a.partition_key, a.sort_key,
                                   a.prevent_overwrite)
           IN  /\ tables' = o.tables
               /\ CallerDone(c, o)
        /\ UNCHANGED <<call, last>>

ConcurrentNext ==
    \/ PutDescribe
    \/ PutValidate
    \/ PutWrite

ConcurrentSpec == ConcurrentInit /\ [][ConcurrentNext]_vars

\* ------------------------------------------------------------------------
\* validate_keys on its own
\*
\* The table descriptions are those of the tables create_table can make: a
\* HASH key, then at most one RANGE key of another name.
\* ------------------------------------------------------------------------

KeyAttributeNames == {"id", "book_name", "year"}

KeySchemaArgs ==
    {create_KeySchema(p, PyNone, PyNone) : p \in KeyAttributeNames}
    \cup UNION {{create_KeySchema(p, PyStr(r), PyStr("S")) :
                    r \in KeyAttributeNames \ {p}} : p \in KeyAttributeNames}

\* sort_key: None, "" or a name
SortKeyNameArgs == {PyNone, PyStr("")} \cup {PyStr(r) : r \in KeyAttributeNames}

ValidateInit ==
    /\ tables = [t \in TableNames |-> NoTable]
    /\ call = Idle
    /\ callers = NoCallers
    /\ \E key_schema \in KeySchemaArgs, pk \in KeyAttributeNames,
          sk \in SortKeyNameArgs :
           last = [op |-> "validate_keys_call",
                   table_description |->
                       [TableName |-> "T", KeySchema |-> key_schema,
                        TableStatus |-> "ACTIVE"],
                   partition_key |-> pk, sort_key |-> sk]

ValidateKeys ==
    /\ last.op = "validate_keys_call"
    /\ last' = [op |-> "validate_keys",
                table_description |-> last.table_description,
                partition_key |-> last.partition_key,
                sort_key |-> last.sort_key,
                ret |-> validate_keys(last.table_description,
                                      last.partition_key, last.sort_key)]
    /\ UNCHANGED <<tables, call, callers>>

ValidateNext == ValidateKeys

ValidateSpec == ValidateInit /\ [][ValidateNext]_vars

\* ------------------------------------------------------------------------
\* Properties
\* ------------------------------------------------------------------------

\* how a caller tells that put_item succeeded: it returned a non-empty dict
PutSucceeded(l) == l.raised = "" /\ l.ret # EmptyDict

\* put_item returned the empty dict
PutRejected(l) == l.raised = "" /\ l.ret = EmptyDict

\* the put_item call passes the pre-checks and the service accepts the item
\* as an item of the table: the table is ACTIVE, the key names are those of
\* the schema, the item has them, converts, and its key values have the
\* declared types
PutWellFormed(pre, args) ==
    /\ pre[args.table_name].TableStatus = "ACTIVE"
    /\ validate_keys(TableDescription(pre, args.table_name),
                     args.partition_key, args.sort_key)
    /\ check_item_keys(args.item, args.partition_key, args.sort_key)
    /\ ~convert_raises(args.item)
    /\ KeysWellTyped(pre[args.table_name],
                     convert_to_dynamodb_format(args.item))

\* C1: put_item with prevent_overwrite=True on a key that already holds an
\* item fails with ConditionalCheckFailedException, returns the empty dict
\* (success returns a non-empty one) and leaves all tables as they were; on a
\* key that holds no item it succeeds and the converted item is stored.
C1_ConditionalPut ==
    (/\ last.op = "put_item"
     /\ last.args.prevent_overwrite
     /\ PutWellFormed(last.pre, last.args))
    => LET t == last.args.table_name
           Item == convert_to_dynamodb_format(last.args.item)
       IN  IF SameKey(last.pre[t], Item) # {}
           THEN /\ last.Error = "ConditionalCheckFailedException"
                /\ PutRejected(last)
                /\ ~PutSucceeded(last)
                /\ tables = last.pre
           ELSE /\ PutSucceeded(last)
                /\ last.Error = ""
                /\ Item \in tables[t].Items

C1_Witness_Refused ==
    /\ last.op = "put_item"
    /\ last.args.prevent_overwrite
    /\ PutWellFormed(last.pre, last.args)
    /\ last.Error = "ConditionalCheckFailedException"
    /\ last.args.item = BookItem(PyStr("25"))
    /\ convert_to_dynamodb_format(FullItem) \in tables[last.args.table_name].Items

\* C3: put_item changes no table when a pre-check fails: the table cannot be
\* described, validate_keys rejects the key names, or check_item_keys finds a
\* key missing in the item. validate_keys is decided before check_item_keys:
\* a call that fails both is rejected as "invalid schema".
C3_PreChecksBeforeWrite ==
    last.op = "put_item"
    => LET t == last.args.table_name
           table_description == describe_table(last.pre, t).ret
           keys_ok == validate_keys(table_description, last.args.partition_key,
                                    last.args.sort_key)
           item_ok == check_item_keys(last.args.item, last.args.partition_key,
                                      last.args.sort_key)
       IN  /\ table_description = EmptyDict
              => /\ PutRejected(last)
                 /\ tables = last.pre
           /\ (table_description # EmptyDict /\ ~keys_ok)
              => /\ PutRejected(last)
                 /\ tables = last.pre
                 /\ last.log = "[-] Item insertion aborted due to invalid schema."
           /\ (table_description # EmptyDict /\ keys_ok /\ ~item_ok)
              => /\ PutRejected(last)
                 /\ tables = last.pre
                 /\ last.log =
                      "[-] Item insertion aborted due to missing key(s) in item."

\* a put_item on an ACTIVE table that holds an item, with a wrong key name
\* and an item that lacks that key, was rejected as invalid schema
C3_Witness_BothFail ==
    /\ last.op = "put_item"
    /\ last.pre[last.args.table_name].TableStatus = "ACTIVE"
    /\ last.pre[last.args.table_name].Items # {}
    /\ ~validate_keys(TableDescription(last.pre, last.args.table_name),
                      last.args.partition_key, last.args.sort_key)
    /\ ~check_item_keys(last.args.item, last.args.partition_key,
                        last.args.sort_key)
    /\ PutRejected(last)

\* C7: put_item with prevent_overwrite=False on a key that holds an item
\* replaces the item: afterwards the only item stored under that key is the
\* new one (no attribute of the old item is kept), the items under the other
\* keys are the same, and the other tables are unchanged.
C7_OverwriteReplaces ==
    (/\ last.op = "put_item"
     /\ ~last.args.prevent_overwrite
     /\ PutWellFormed(last.pre, last.args)
     /\ SameKey(last.pre[last.args.table_name],
                convert_to_dynamodb_format(last.args.item)) # {})
    => LET t == last.args.table_name
           Item == convert_to_dynamodb_format(last.args.item)
           old == SameKey(last.pre[t], Item)
       IN  /\ PutSucceeded(last)
           /\ SameKey(tables[t], Item) = {Item}
           /\ tables[t].Items \ {Item} = last.pre[t].Items \ old
           /\ \A u \in TableNames \ {t} : tables[u] = last.pre[u]

\* the stored item had attributes the new item lacks
C7_Witness_Shrinks ==
    /\ last.op = "put_item"
    /\ ~last.args.prevent_overwrite
    /\ PutSucceeded(last)
    /\ last.args.item = BookItem(PyStr("25"))
    /\ convert_to_dynamodb_format(FullItem) \in last.pre[last.args.table_name].Items
    /\ Cardinality(last.pre[last.args.table_name].Items) > 1

\* how a caller tells that create_table returned a description
CreateReturnedTable(l) == l.raised = "" /\ l.ret[2] # EmptyDict

\* C4: create_table on a name that exists returns the key schema of the
\* existing table, whatever schema is asked for, and changes no table;
\* create_table that created the table returns the schema the table has; and
\* the key schema of a table never changes while the table exists.
C4_CreateIdempotent ==
    /\ [](last.op = "create_table"
          => LET t == last.args.table_name IN
             /\ last.pre[t].TableStatus # "NONE"
                => /\ CreateReturnedTable(last)
                   /\ last.ret[2].KeySchema = last.pre[t].KeySchema
                   /\ last.ret[2].AttributeDefinitions =
                          last.pre[t].AttributeDefinitions
                   /\ tables = last.pre
             /\ (last.pre[t].TableStatus = "NONE" /\ CreateReturnedTable(last))
                => /\ last.ret[2].KeySchema = tables[t].KeySchema
                   /\ last.ret[2].KeySchema =
                          create_KeySchema(last.args.partition_key,
                              last.args.sort_key, last.args.sort_key_type)
                   /\ tables[t].Items = {})
    /\ [][\A t \in TableNames :
            (tables[t].TableStatus # "NONE" /\ tables'[t].TableStatus # "NONE")
            => /\ tables'[t].KeySchema = tables[t].KeySchema
               /\ tables'[t].AttributeDefinitions =
                      tables[t].AttributeDefinitions]_vars

\* create_table asked for another key schema than the one of the existing
\* table, which holds items
C4_Witness_SecondCall ==
    /\ last.op = "create_table"
    /\ last.pre[last.args.table_name].TableStatus = "ACTIVE"
    /\ last.pre[last.args.table_name].Items # {}
    /\ last.pre[last.args.table_name].KeySchema #
           create_KeySchema(last.args.partition_key, last.args.sort_key,
                            last.args.sort_key_type)
    /\ CreateReturnedTable(last)

\* the item_key of a delete_item or get_item call is a key of the ACTIVE table
KeyWellFormed(pre, args) ==
    /\ pre[args.table_name].TableStatus = "ACTIVE"
    /\ ~convert_raises(args.item_key)
    /\ KeyValid(pre[args.table_name], convert_to_dynamodb_format(args.item_key))

ItemKeyOf(table, item) == [a \in KeyNames(table) |-> item[a]]

\* C6: get_item with the key attributes of an item that put_item stored
\* returns a dict equal to the item passed to put_item.
C6_PutGetRoundTrip ==
    (last.op = "put_item" /\ PutSucceeded(last))
    => LET t == last.args.table_name IN
       get_item(tables, t, ItemKeyOf(tables[t], last.args.item)).ret
           = last.args.item

\* C10: get_all_items on an ACTIVE table returns every stored item of that
\* table once and nothing else, and the empty list for a table without items.
C10_FullScan ==
    (/\ last.op = "get_all_items"
     /\ last.pre[last.args.table_name].TableStatus = "ACTIVE")
    => /\ last.raised = ""
       /\ {last.ret[i] : i \in DOMAIN last.ret}
              = tables[last.args.table_name].Items
       /\ Len(last.ret) = Cardinality(tables[last.args.table_name].Items)

\* what the caller of a method gets: the value returned or the exception
Seen(o) == <<o.ret, o.raised>>

\* C8 as claimed: put_item and delete_table on a name that names no table
\* give the caller an outcome that none of their other failures gives, and
\* change no table.
C8_DistinctTableNotFound ==
    /\ (last.op = "put_item" /\ last.pre[last.args.table_name].TableStatus = "NONE")
       => /\ tables = last.pre
          /\ \A u \in TableNames, item \in ItemArgs, pk \in PartitionKeyArgs,
                sk \in SortKeyArgs, po \in BOOLEAN :
                LET o == put_item(tables, u, item, pk, sk, po) IN
                (tables[u].TableStatus # "NONE" /\ o.tables = tables
                 /\ o.log # "[+] Item inserted successfully.")
                => Seen(o) # Seen(last)
    /\ (last.op = "delete_table" /\ last.pre[last.args.table_name].TableStatus = "NONE")
       => /\ tables = last.pre
          /\ \A u \in TableNames :
                LET o == delete_table(tables, u) IN
                (tables[u].TableStatus # "NONE" /\ ~o.waiting)
                => Seen(o) # Seen(last)

\* C8 amended: put_item and delete_table on a name that names no table return
\* the empty dict after a ResourceNotFoundException, without raising; a call
\* that succeeds returns a non-empty dict; and no table is changed.
C8_TableNotFoundIsEmpty ==
    /\ (last.op = "put_item" /\ last.pre[last.args.table_name].TableStatus = "NONE")
       => /\ last.ret = EmptyDict
          /\ last.raised = ""
          /\ last.Error = "ResourceNotFoundException"
          /\ tables = last.pre
          /\ \A u \in TableNames, item \in ItemArgs, pk \in PartitionKeyArgs,
                sk \in SortKeyArgs, po \in BOOLEAN :
                LET o == put_item(tables, u, item, pk, sk, po) IN
                o.log = "[+] Item inserted successfully."
                => Seen(o) # Seen(last)
    /\ (last.op = "delete_table" /\ last.pre[last.args.table_name].TableStatus = "NONE")
       => /\ last.ret = EmptyDict
          /\ last.raised = ""
          /\ last.Error = "ResourceNotFoundException"
          /\ tables = last.pre
          /\ \A u \in TableNames :
                LET o == delete_table(tables, u) IN
                o.waiting => Seen(o) # Seen(last)

\* delete_table was called on a missing table while the other table exists,
\* is being created (so that delete_table on it fails in another way)
C8_Witness_DeleteMissing ==
    /\ last.op = "delete_table"
    /\ last.pre[last.args.table_name].TableStatus = "NONE"
    /\ \E u \in TableNames : tables[u].TableStatus = "CREATING"

SameKeyRace ==
    /\ \A c \in Callers :
          /\ callers[c].args.prevent_overwrite
          /\ PutWellFormed(last.pre, callers[c].args)
    /\ KeyOf(last.pre["T"], convert_to_dynamodb_format(callers["c1"].args.item))
         = KeyOf(last.pre["T"], convert_to_dynamodb_format(callers["c2"].args.item))
    /\ SameKey(last.pre["T"],
               convert_to_dynamodb_format(callers["c1"].args.item)) = {}

\* C2: when two put_item calls with prevent_overwrite=True on the same
\* primary key run concurrently and both have returned, exactly one succeeded,
\* the other one failed with ConditionalCheckFailedException, and the item
\* stored under the key is the item of the call that succeeded.
C2_OneWinner ==
    (/\ last.op = "concurrent"
     /\ \A c \in Callers : callers[c].pc = "done"
     /\ SameKeyRace)
    => \E w \in Callers :
          LET l == CHOOSE c \in Callers : c # w
              Item == convert_to_dynamodb_format(callers[w].args.item)
          IN  /\ PutSucceeded(callers[w])
              /\ PutRejected(callers[l])
              /\ callers[l].Error = "ConditionalCheckFailedException"
              /\ SameKey(tables["T"], Item) = {Item}

\* both calls returned after a race for one key with different items
C2_Witness_Race ==
    /\ last.op = "concurrent"
    /\ \A c \in Callers : callers[c].pc = "done"
    /\ SameKeyRace
    /\ callers["c1"].args.item # callers["c2"].args.item
    /\ PutSucceeded(callers["c2"])

\* the names a key schema declares in a role (HASH or RANGE)
RoleNames(key_schema, KeyType) ==
    {key_schema[i].AttributeName :
        i \in {k \in DOMAIN key_schema : key_schema[k].KeyType = KeyType}}

\* C11: validate_keys returns True exactly when the partition key name is the
\* HASH attribute of the schema and the sort key is the RANGE attribute of the
\* schema when the schema declares one, and is not supplied when it declares
\* none; so it returns False for a missing sort key, for a partition key that
\* is not the HASH attribute, and for a sort key that is no RANGE attribute.
C11_ValidateKeysExact ==
    last.op = "validate_keys"
    => LET key_schema == last.table_description.KeySchema
           hash == RoleNames(key_schema, "HASH")
           range == RoleNames(key_schema, "RANGE")
           supplied == Truthy(last.sort_key)
       IN  /\ (range # {} /\ ~supplied) => ~last.ret
           /\ last.partition_key \notin hash => ~last.ret
           /\ (supplied /\ last.sort_key.v \notin range) => ~last.ret
           /\ last.ret
              <=> /\ last.partition_key \in hash
                  /\ IF range # {} THEN supplied /\ last.sort_key.v \in range
                     ELSE ~supplied

\* a sort key was supplied that is the HASH attribute of a schema with a
\* RANGE key, together with the right partition key: rejected
C11_Witness_WrongRole ==
    /\ last.op = "validate_keys"
    /\ Len(last.table_description.KeySchema) = 2
    /\ last.partition_key \in RoleNames(last.table_description.KeySchema, "HASH")
    /\ Truthy(last.sort_key)
    /\ last.sort_key.v = last.partition_key
    /\ ~last.ret

\* how a caller tells that delete_table succeeded: a non-empty response
DeleteSucceeded(l) == l.raised = "" /\ l.ret # EmptyDict

\* C12: delete_table on an ACTIVE table takes it from ACTIVE to DELETING and
\* from DELETING to no table. It polls at most DeleteMaxAttempts times and
\* returns the response only when the table is gone: then describe_table
\* returns the empty dict, list_tables does not name the table, and get_item
\* and get_all_items return nothing for it. When the table is still there
\* after the last poll it returns the empty dict. On a name that names no
\* table it returns the empty dict after ResourceNotFoundException and
\* changes no table.
C12_DeleteTable ==
    /\ [](call.pc = "delete_wait"
          => /\ call.num_attempts < DeleteMaxAttempts
             /\ tables[call.args.table_name].TableStatus \in {"DELETING", "NONE"})
    /\ [](last.op = "delete_table"
          => LET t == last.args.table_name IN
             /\ last.pre[t].TableStatus = "ACTIVE"
                => IF DeleteSucceeded(last)
                   THEN /\ tables[t] = NoTable
                        /\ last.num_attempts <= DeleteMaxAttempts
                        /\ describe_table(tables, t).ret = EmptyDict
                        /\ t \notin list_tables(tables).ret
                        /\ get_all_items(tables, t).ret = EmptyList
                        /\ \A item_key \in ItemKeyArgs :
                              get_item(tables, t, item_key).ret = EmptyDict
                   ELSE /\ last.raised = ""
                        /\ last.ret = EmptyDict
                        /\ last.num_attempts = DeleteMaxAttempts
                        /\ tables[t].TableStatus = "DELETING"
             /\ last.pre[t].TableStatus = "NONE"
                => /\ last.ret = EmptyDict
                   /\ last.raised = ""
                   /\ last.Error = "ResourceNotFoundException"
                   /\ tables = last.pre)
    /\ [][\A t \in TableNames :
            /\ tables[t].TableStatus = "ACTIVE"
               => tables'[t].TableStatus \in {"ACTIVE", "DELETING"}
            /\ tables[t].TableStatus = "DELETING"
               => tables'[t].TableStatus \in {"DELETING", "NONE"}]_vars

\* delete_table returned its response for a table that held items, after it
\* had polled while the table was still DELETING
C12_Witness_Removed ==
    /\ last.op = "delete_table"
    /\ last.pre[last.args.table_name].TableStatus = "ACTIVE"
    /\ last.pre[last.args.table_name].Items # {}
    /\ DeleteSucceeded(last)
    /\ last.num_attempts > 1

====
